---------------------------- MODULE Spec2Model ----------------------------
(***************************************************************************)
(* gtkv: the relational document store (persistence_sqlite.py) and the     *)
(* format dispatcher (document_io.py).                                     *)
(*                                                                         *)
(* The store is modelled as the committed database ("disk") plus, for each *)
(* open connection, its transaction state.  The connection follows the     *)
(* rules of Python's sqlite3 module in its default (legacy) transaction    *)
(* mode, which the source relies on:                                       *)
(*   - INSERT/UPDATE/DELETE issued outside a transaction first open one;   *)
(*   - CREATE/ALTER/DROP issued outside a transaction commit at once;      *)
(*   - an explicit BEGIN inside an open transaction is an error;           *)
(*   - close() without commit() discards the open transaction.             *)
(* Block ids and the created_at/updated_at stamps are left out: no code    *)
(* path reads them.                                                        *)
(***************************************************************************)
EXTENDS Integers, Sequences, FiniteSets, TLC

VARIABLES
    disk,    \* committed contents of the store file
    disk0,   \* contents of the store file when the run began
    lock,    \* connection holding the database write lock, 0 when free
    calls,   \* per connection: the load_document/save_document call in progress
    hist,    \* what earlier calls did: whether an _ensure_schema has returned
    cache,   \* files in the document's cache directory
    document,\* the in-memory BlockDocument: blocks, path, dirty flag
    file,    \* bytes of the file handed to document_io
    route,   \* what document_io did with it
    mat,     \* per caller: the materialize call in progress or just ended
    render   \* the render_python_image calls made and what they returned

vars == <<disk, disk0, lock, calls, hist, cache, document, file, route, mat, render>>

----------------------------------------------------------------------------
(* Bounds *)

MaxBlocks == 2      \* longest document handed to save_document
MaxFailAt == 17     \* latest statement at which an I/O failure is injected
MaxImgSeq == 3      \* saves stop once the images id counter has passed this
MaxFileLen == 5     \* longest file handed to document_io
MaxRows == 2        \* most rows of a store that SpecLoad reads
MaxTmp == 2         \* names the ephemeral directories of the renders go through
ChunkLen == 2       \* read-ahead of the text decoder, scaled down from 8192

----------------------------------------------------------------------------
(* Values *)

NULL == "NULL"

SCHEMA_VERSION == 3

TEXT_HEADER == <<"#", "v">>

Procs == {1, 2}

EnumV2 == {"text", "image", "three"}

EnumV3 == {"text", "image", "three", "pyimage"}

\* a blocks table recreated without its CHECK(type IN ...) constraint
TypeAllowedUnchecked(shape, type) == TRUE

\* CHECK(type IN ...) of a blocks table of the given shape; a "v0" table
\* predates the constraint.
TypeAllowed(shape, type) ==
    CASE shape = "v2" -> type \in EnumV2
      [] shape = "v3" -> type \in EnumV3
      [] OTHER -> TRUE

Row(position, type, text, image_id) ==
    [position |-> position, type |-> type, text |-> text, image_id |-> image_id,
     format |-> NULL, rendered_data |-> NULL, rendered_hash |-> NULL, error |-> NULL]

PyRow(position, text, format, rendered_data, rendered_hash, error) ==
    [position |-> position, type |-> "pyimage", text |-> text, image_id |-> 0,
     format |-> format, rendered_data |-> rendered_data,
     rendered_hash |-> rendered_hash, error |-> error]

ImageRow(id, mime, data, alt) ==
    [id |-> id, mime |-> mime, data |-> data, alt |-> alt]

\* A store file that sqlite3.connect has just created: no tables.
EmptyDB ==
    [tables |-> {}, idx |-> "none", ver |-> NULL, shape |-> "none",
     oldShape |-> "none", blocks |-> <<>>, old |-> <<>>, images |-> <<>>,
     imgSeq |-> 0]

----------------------------------------------------------------------------
(* Pure helpers *)

ImageIds(db) == {db.images[k].id : k \in 1..Len(db.images)}

\* a connection on which PRAGMA foreign_keys = ON was not issued
FkNotEnforced(db, row) == TRUE

\* FOREIGN KEY(image_id) REFERENCES images(id), with PRAGMA foreign_keys = ON
FkOk(db, row) == row.image_id = 0 \/ row.image_id \in ImageIds(db)

\* int(value): the decimal strings the model uses, anything else raises
IsIntString(s) == s \in {"0", "2", "3", "5"}

ParseInt(s) ==
    CASE s = "0" -> 0
      [] s = "2" -> 2
      [] s = "3" -> 3
      [] s = "5" -> 5
      [] OTHER -> 0

\* str(n)
Str(n) == ToString(n)


----------------------------------------------------------------------------
(* In-memory blocks (block_model) and the files image blocks point at *)

Block(kind, text) ==
    [kind |-> kind, text |-> text, path |-> NULL, alt |-> "", data |-> NULL,
     mime |-> NULL, format |-> NULL, rendered_data |-> NULL,
     rendered_hash |-> NULL, error |-> NULL]

TextBlock(text) == Block("text", text)

ThreeBlock(source) == Block("three", source)

LatexBlock(source) == Block("latex", source)

ImageBlock(path, alt, data, mime) ==
    [Block("image", NULL) EXCEPT !.path = path, !.alt = alt, !.data = data,
                                 !.mime = mime]

PythonImageBlock(source, format, rendered_data, rendered_hash, last_error, rendered_path) ==
    [Block("pyimage", source) EXCEPT !.format = format,
                                     !.rendered_data = rendered_data,
                                     !.rendered_hash = rendered_hash,
                                     !.error = last_error,
                                     !.path = rendered_path]

\* Python truthiness of an optional string / bytes value
Truthy(x) == x \notin {NULL, ""}

\* x or default
OrElse(x, default) == IF Truthy(x) THEN x ELSE default

\* The image files of the environment: os.path.exists, Path.read_bytes,
\* mimetypes.guess_type.
FsExists(path) == path \in {"/a.png", "/b.bin", "/locked.png"}

FsReadable(path) == path \in {"/a.png", "/b.bin"}

FsBytes(path) == IF path = "/a.png" THEN "d1" ELSE "d2"

GuessType(path) == IF path \in {"/a.png", "/locked.png"} THEN "image/png" ELSE NULL

GuessExtension(mime) ==
    CASE mime = "image/png" -> ".png"
      [] mime = "application/octet-stream" -> ".bin"
      [] OTHER -> NULL

NoPayload == [data |-> NULL, mime |-> NULL]

_resolve_image_payload(block) ==
    IF Truthy(block.data) /\ Truthy(block.mime)
    THEN [data |-> block.data, mime |-> block.mime]
    ELSE IF Truthy(block.path) /\ FsExists(block.path)
         THEN IF ~FsReadable(block.path)
              THEN NoPayload
              ELSE [data |-> FsBytes(block.path),
                    mime |-> OrElse(GuessType(block.path), "application/octet-stream")]
         ELSE NoPayload

----------------------------------------------------------------------------
(* The cache directory of the document *)

\* dirs: the directories made so far ("root": the document's cache
\* directory, "pyimage": its pyimage subdirectory); images, py: their files
EmptyCache == [dirs |-> {}, images |-> {}, py |-> {}]

\* What the filesystem does to one materialize call: nothing, or it fails
\* the mkdir of a directory not yet made, the open of the target file, or
\* the write into it.
Faults == {"none", "mkdir", "open", "write"}

\* base64.b64decode: the encodings the model uses; "abc" has bad padding
B64Ok(s) == s \in {"ZDE=", "ZDI="}

B64Decode(s) == IF s = "ZDE=" THEN "d1" ELSE "d2"

ImageFile(k, id, ext) == {f \in k.images : f.id = id /\ f.ext = ext}

ImagePath(image_id, mime) ==
    "image-" \o ToString(image_id) \o OrElse(GuessExtension(OrElse(mime, "")), ".img")

PyExt(render_format) == IF OrElse(render_format, "png") = "svg" THEN ".svg" ELSE ".png"

PyFile(k, digest, ext) == {f \in k.py : f.digest = digest /\ f.ext = ext}

\* A materialize call in progress.  id, ext: the key of an image file;
\* digest, ext: the key of a render file; name: the path it would return;
\* raw: rendered_data; data: the bytes to write.
MIdle ==
    [fn |-> "none", pc |-> "done", id |-> 0, digest |-> "", ext |-> "",
     name |-> NULL, raw |-> NULL, data |-> NULL, fault |-> "none",
     ret |-> NULL, err |-> "none"]

MCallImage(image_id, mime, data, fault) ==
    [MIdle EXCEPT !.fn = "image", !.pc = "mkdir", !.id = image_id,
                  !.ext = OrElse(GuessExtension(OrElse(mime, "")), ".img"),
                  !.name = ImagePath(image_id, mime), !.data = data,
                  !.fault = fault]

MCallPyimage(rendered_data, render_format, rendered_hash, fault) ==
    [MIdle EXCEPT !.fn = "pyimage", !.pc = "start",
                  !.digest = OrElse(rendered_hash, OrElse(rendered_data, "")),
                  !.ext = PyExt(render_format),
                  !.name = "pyimage-" \o OrElse(rendered_hash, OrElse(rendered_data, ""))
                              \o PyExt(render_format),
                  !.raw = rendered_data, !.data = rendered_data, !.fault = fault]

MReturn(st, path) == [st EXCEPT !.m.pc = "done", !.m.ret = path]

MRaise(st, e) == [st EXCEPT !.m.pc = "done", !.m.err = e]

\* an OSError of the write: _materialize_pyimage catches it and returns
\* None, _materialize_image has no handler
MWriteError(st) ==
    IF st.m.fn = "pyimage" THEN MReturn(st, NULL) ELSE MRaise(st, "OSError")

\* image_path.exists() always finding nothing
MExistsNot(st) == FALSE

\* image_path.exists()
MExists(st) ==
    IF st.m.fn = "image"
    THEN ImageFile(st.k, st.m.id, st.m.ext) # {}
    ELSE PyFile(st.k, st.m.digest, st.m.ext) # {}

\* the directory the call makes and the directories that brings into being
MDirs(m) == IF m.fn = "image" THEN {"root"} ELSE {"root", "pyimage"}

\* the target file with the given bytes in place of what it held
MPut(st, bytes) ==
    IF st.m.fn = "image"
    THEN [st.k EXCEPT !.images = (@ \ ImageFile(st.k, st.m.id, st.m.ext))
                          \cup {[id |-> st.m.id, ext |-> st.m.ext, bytes |-> bytes]}]
    ELSE [st.k EXCEPT !.py = (@ \ PyFile(st.k, st.m.digest, st.m.ext))
                          \cup {[digest |-> st.m.digest, ext |-> st.m.ext, bytes |-> bytes]}]

\* One step of _materialize_image or _materialize_pyimage.  st is
\* [m |-> the call, k |-> the cache].  write_bytes and write_text open the
\* file, which empties it, and then write; every payload of the model has
\* one length, so the write replaces what the file held.
MStep(st) ==
    LET m == st.m
    IN
    CASE m.pc = "start" ->
            IF ~Truthy(m.raw) THEN MReturn(st, NULL) ELSE [st EXCEPT !.m.pc = "mkdir"]
      [] m.pc = "mkdir" ->
            IF MDirs(m) \subseteq st.k.dirs THEN [st EXCEPT !.m.pc = "exists"]
            ELSE IF m.fault = "mkdir" THEN MRaise(st, "OSError")
            ELSE [st EXCEPT !.k.dirs = @ \cup MDirs(m), !.m.pc = "exists"]
      [] m.pc = "exists" ->
            IF MExists(st) THEN MReturn(st, m.name)
            ELSE IF m.fn = "pyimage" /\ m.ext = ".png"
                 THEN [st EXCEPT !.m.pc = "decode"]
                 ELSE [st EXCEPT !.m.pc = "open"]
      [] m.pc = "decode" ->
            IF B64Ok(m.raw)
            THEN [st EXCEPT !.m.data = B64Decode(m.raw), !.m.pc = "open"]
            ELSE MReturn(st, NULL)
      [] m.pc = "open" ->
            IF m.fault = "open" THEN MWriteError(st)
            ELSE [st EXCEPT !.k = MPut(st, ""), !.m.pc = "write"]
      [] m.pc = "write" ->
            IF m.fault = "write" THEN MWriteError(st)
            ELSE [st EXCEPT !.k = MPut(st, m.data), !.m.pc = "return"]
      [] OTHER -> MReturn(st, m.name)

\* a whole materialize call, alone on the cache
RECURSIVE MRun(_)
MRun(st) == IF st.m.pc = "done" THEN st ELSE MRun(MStep(st))

\* [m |-> the finished call: ret is the path returned or NULL, err the
\* exception raised; k |-> the cache after the call]
_materialize_image(k, image_id, mime, data, fault) ==
    MRun([m |-> MCallImage(image_id, mime, data, fault), k |-> k])

_materialize_pyimage(k, rendered_data, render_format, rendered_hash, fault) ==
    MRun([m |-> MCallPyimage(rendered_data, render_format, rendered_hash, fault), k |-> k])

----------------------------------------------------------------------------
(* SQL statements, as functions from the database a connection sees to the *)
(* database after the statement.  Each XxxOk is the condition under which  *)
(* SQLite executes the statement instead of raising.                       *)

CreateTableIfNotExists(db, t) ==
    IF t \in db.tables THEN db
    ELSE IF t = "blocks"
         THEN [db EXCEPT !.tables = @ \cup {t}, !.shape = "v3"]
         ELSE [db EXCEPT !.tables = @ \cup {t}]

CreateIndexOk(db) == db.idx # "none" \/ "blocks" \in db.tables

CreateIndexIfNotExists(db) ==
    IF db.idx # "none" THEN db ELSE [db EXCEPT !.idx = "blocks"]

\* the value read by position, row[0], which any row allows
_get_schema_version_by_index(db, rowFactory) ==
    IF db.ver = NULL THEN 0
    ELSE IF IsIntString(db.ver) THEN ParseInt(db.ver)
    ELSE 0

_get_schema_version(db, rowFactory) ==
    IF db.ver = NULL THEN 0
    ELSE IF ~rowFactory THEN 0          \* row["value"] on a tuple: TypeError
    ELSE IF IsIntString(db.ver) THEN ParseInt(db.ver)
    ELSE 0                              \* int(): ValueError

RenameOk(db) == "blocks" \in db.tables /\ "blocks_old" \notin db.tables

\* ALTER TABLE blocks RENAME TO blocks_old: the index follows the table
RenameBlocks(db) ==
    [db EXCEPT !.tables = (@ \ {"blocks"}) \cup {"blocks_old"},
               !.old = db.blocks, !.oldShape = db.shape,
               !.blocks = <<>>, !.shape = "none",
               !.idx = IF @ = "blocks" THEN "blocks_old" ELSE @]

CreateOk(db) == "blocks" \notin db.tables

CreateBlocks(db, shape) ==
    [db EXCEPT !.tables = @ \cup {"blocks"}, !.shape = shape, !.blocks = <<>>]

\* the columns the migration copies: position, type, text, image_id
CopiedRow(r) == Row(r.position, r.type, r.text, r.image_id)

CopyOk(db) ==
    /\ {"blocks", "blocks_old"} \subseteq db.tables
    /\ \A n \in 1..Len(db.old) :
          TypeAllowed(db.shape, db.old[n].type) /\ FkOk(db, db.old[n])

CopyRows(db) ==
    [db EXCEPT !.blocks = @ \o [n \in 1..Len(db.old) |-> CopiedRow(db.old[n])]]

DropOk(db) == "blocks_old" \in db.tables

DropOld(db) ==
    [db EXCEPT !.tables = @ \ {"blocks_old"}, !.old = <<>>, !.oldShape = "none",
               !.idx = IF @ = "blocks_old" THEN "none" ELSE @]

_upsert_meta(db, value) == [db EXCEPT !.ver = value]

DeleteBlocks(db) == [db EXCEPT !.blocks = <<>>]

\* ON DELETE SET NULL
DeleteImages(db) ==
    [db EXCEPT !.images = <<>>,
               !.blocks = [n \in 1..Len(db.blocks) |->
                              [db.blocks[n] EXCEPT !.image_id = 0]]]

InsertBlockOk(db, row) ==
    /\ "blocks" \in db.tables
    /\ TypeAllowed(db.shape, row.type)
    /\ FkOk(db, row)
    /\ (row.type = "pyimage" => db.shape = "v3")

InsertBlock(db, row) == [db EXCEPT !.blocks = Append(@, row)]

\* mime and data are NOT NULL
InsertImageOk(db, mime, data) == "images" \in db.tables /\ mime # NULL /\ data # NULL

\* AUTOINCREMENT: ids are never reused, also after DELETE FROM images
InsertImage(db, mime, data, alt) ==
    [db EXCEPT !.images = Append(@, ImageRow(db.imgSeq + 1, mime, data, alt)),
               !.imgSeq = @ + 1]


----------------------------------------------------------------------------
(* load_document: the rows of blocks, in position order, to in-memory      *)
(* blocks, materializing images and renders on the way                     *)

RECURSIVE InsertSorted(_, _)
InsertSorted(sorted, r) ==
    IF sorted = <<>> THEN <<r>>
    ELSE IF Head(sorted).position <= r.position
         THEN <<Head(sorted)>> \o InsertSorted(Tail(sorted), r)
         ELSE <<r>> \o sorted

\* ORDER BY position
RECURSIVE OrderByPosition(_)
OrderByPosition(rows) ==
    IF rows = <<>> THEN <<>>
    ELSE InsertSorted(OrderByPosition(SubSeq(rows, 1, Len(rows) - 1)), rows[Len(rows)])

ImageRowsWithId(db, id) ==
    {n \in 1..Len(db.images) : db.images[n].id = id}

\* one pass of the for loop of load_document over the rows still to read;
\* acc is [out |-> blocks so far, k |-> cache, err |-> exception raised];
\* fault is what the filesystem does to the materialize calls
RECURSIVE LoadRows(_, _, _, _)
LoadRows(db, rows, acc, fault) ==
    IF rows = <<>> \/ acc.err # "none" THEN acc
    ELSE
      LET row == Head(rows)
          rest == Tail(rows)
      IN
      IF row.type = "text"
      THEN LoadRows(db, rest,
               [acc EXCEPT !.out = Append(@, TextBlock(OrElse(row.text, "")))], fault)
      ELSE IF row.type = "image" /\ row.image_id # 0
      THEN IF ImageRowsWithId(db, row.image_id) = {}
           THEN LoadRows(db, rest, acc, fault)
           ELSE LET img == db.images[CHOOSE n \in ImageRowsWithId(db, row.image_id) : TRUE]
                    r == _materialize_image(acc.k, img.id, img.mime, img.data, fault)
                IN  IF r.m.err # "none"
                    THEN [acc EXCEPT !.k = r.k, !.err = r.m.err]
                    ELSE LoadRows(db, rest,
                            [acc EXCEPT !.out = Append(@,
                                            ImageBlock(r.m.ret, OrElse(img.alt, ""),
                                                       img.data, img.mime)),
                                        !.k = r.k], fault)
      ELSE IF row.type = "three"
      THEN LoadRows(db, rest,
               [acc EXCEPT !.out = Append(@, ThreeBlock(OrElse(row.text, "")))], fault)
      ELSE IF row.type = "pyimage"
      THEN LET r == _materialize_pyimage(acc.k, row.rendered_data, row.format,
                                         row.rendered_hash, fault)
           IN  IF r.m.err # "none"
               THEN [acc EXCEPT !.k = r.k, !.err = r.m.err]
               ELSE LoadRows(db, rest,
                       [acc EXCEPT !.out = Append(@,
                                       PythonImageBlock(OrElse(row.text, ""),
                                                        OrElse(row.format, "png"),
                                                        row.rendered_data,
                                                        row.rendered_hash,
                                                        row.error, r.m.ret)),
                                   !.k = r.k], fault)
      ELSE LoadRows(db, rest, acc, fault)

\* the SELECT names the columns of the current table shape
SelectOk(db) == "blocks" \in db.tables /\ "images" \in db.tables /\ db.shape = "v3"

----------------------------------------------------------------------------
(* One call of load_document or save_document on one connection *)

IdleCall ==
    [op |-> "none", pc |-> "done", rowFactory |-> FALSE, inTxn |-> FALSE,
     hasLock |-> FALSE, work |-> EmptyDB, cv |-> 0, doc |-> <<>>, i |-> 1,
     position |-> 0, out |-> <<>>, err |-> "none",
     pre |-> EmptyDB, ensured |-> FALSE, ensView |-> EmptyDB,
     ensChanged |-> FALSE, ensBefore |-> 0, docPath |-> "unset", docDirty |-> TRUE,
     fault |-> "none"]

\* sqlite3.connect(path); load_document also sets conn.row_factory
NewCall(op, doc, d, ensBefore) ==
    [IdleCall EXCEPT !.op = op, !.pc = "pragma_fk", !.rowFactory = (op = "load"),
                     !.doc = doc.blocks, !.docPath = doc.path,
                     !.docDirty = doc.dirty, !.pre = d,
                     !.ensBefore = ensBefore]

\* the database the connection reads
View(st) == IF st.c.hasLock THEN st.c.work ELSE st.d

\* conn.close(): an open transaction is discarded.  (pre is bookkeeping of
\* the call, dropped with it.)
Close(st) ==
    [st EXCEPT !.c.pc = "done", !.c.inTxn = FALSE, !.c.hasLock = FALSE,
               !.c.work = EmptyDB, !.c.pre = EmptyDB]

\* an exception that leaves the call with the document's flags set
RaiseWithFlagsSet(st, msg) ==
    Close([st EXCEPT !.c.err = msg,
                     !.c.ensChanged = IF st.c.ensured THEN @ ELSE st.d # st.c.pre,
                     !.c.docPath = "target", !.c.docDirty = FALSE])

\* An exception leaves the call: save_document rolls back and re-raises,
\* both close the connection.  ensChanged: the committed store differs from
\* the one the call found, by the time _ensure_schema returned or raised.
Raise(st, msg) ==
    Close([st EXCEPT !.c.err = msg,
                     !.c.ensChanged = IF st.c.ensured THEN @ ELSE st.d # st.c.pre])

\* a statement that changed nothing
Goto(st, pc) == [st EXCEPT !.c.pc = pc]

\* CREATE / ALTER / DROP: inside the open transaction if there is one,
\* committed at once otherwise
Ddl(st, db, pc) ==
    IF st.c.hasLock
    THEN [st EXCEPT !.c.work = db, !.c.pc = pc]
    ELSE [st EXCEPT !.d = db, !.c.pc = pc]

\* INSERT / UPDATE / DELETE: opens a transaction if none is open
Dml(st, db, pc) ==
    [st EXCEPT !.c.work = db, !.c.inTxn = TRUE, !.c.hasLock = TRUE, !.c.pc = pc]

\* where _ensure_schema goes after reading the version
AfterVersion(cv) ==
    IF cv < SCHEMA_VERSION
    THEN IF cv < 2 THEN "m2_rename" ELSE "m3_rename"
    ELSE "ensured"

\* the row save_document inserts for a block; NULL type when it inserts none
RowFor(block, position, image_id) ==
    CASE block.kind = "text" -> Row(position, "text", block.text, 0)
      [] block.kind = "image" -> Row(position, "image", NULL, image_id)
      [] block.kind = "three" -> Row(position, "three", block.text, 0)
      [] block.kind = "pyimage" ->
            PyRow(position, block.text, block.format, block.rendered_data,
                  block.rendered_hash, block.error)
      [] OTHER -> Row(position, NULL, NULL, 0)

\* pcs at which a statement is sent to the database
StmtPcs ==
    {"pragma_fk", "pragma_wal", "create_meta", "create_images", "create_blocks",
     "create_index", "get_version", "m2_rename", "m2_create", "m2_copy", "m2_drop",
     "m3_rename", "m3_create", "m3_copy", "m3_drop", "m_meta", "select", "begin",
     "delete_blocks", "delete_images", "block", "insert_image_block",
     "upsert_meta", "commit"}

\* whether the statement at st.c.pc must take the write lock to run
NeedsLock(st) ==
    LET v == View(st)
        pc == st.c.pc
    IN  /\ ~st.c.hasLock
        /\ \/ pc = "create_meta" /\ "meta" \notin v.tables
           \/ pc = "create_images" /\ "images" \notin v.tables
           \/ pc = "create_blocks" /\ "blocks" \notin v.tables
           \/ pc = "create_index" /\ v.idx = "none"
           \/ pc \in {"m2_rename", "m2_create", "m2_copy", "m2_drop", "m3_rename",
                      "m3_create", "m3_copy", "m3_drop", "m_meta", "delete_blocks",
                      "delete_images", "insert_image_block", "upsert_meta"}
           \/ pc = "block"


\* the loop of save_document at block i
SaveBlock(st) ==
    LET c == st.c
        v == View(st)
        skip == [st EXCEPT !.c.i = @ + 1, !.c.position = @ + 1]
    IN  IF c.i > Len(c.doc)
        THEN Goto(st, "upsert_meta")
        ELSE LET b == c.doc[c.i]
             IN  IF b.kind = "image"
                 THEN LET p == _resolve_image_payload(b)
                      IN  IF p.data = NULL \/ p.mime = NULL
                          THEN skip
                          ELSE IF InsertImageOk(v, p.mime, p.data)
                               THEN Dml(st, InsertImage(v, p.mime, p.data, b.alt),
                                        "insert_image_block")
                               ELSE Raise(st, "IntegrityError")
                 ELSE IF b.kind \in {"text", "three", "pyimage"}
                 THEN LET row == RowFor(b, c.position, 0)
                      IN  IF InsertBlockOk(v, row)
                          THEN [Dml(st, InsertBlock(v, row), "block")
                                  EXCEPT !.c.i = @ + 1, !.c.position = @ + 1]
                          ELSE Raise(st, "IntegrityError")
                 ELSE skip

\* the statement at st.c.pc, run by the database
Exec(st) ==
    LET c == st.c
        v == View(st)
        pc == c.pc
    IN
    CASE pc = "pragma_fk" -> Goto(st, "pragma_wal")
      [] pc = "pragma_wal" -> Goto(st, "create_meta")
      [] pc = "create_meta" -> Ddl(st, CreateTableIfNotExists(v, "meta"), "create_images")
      [] pc = "create_images" -> Ddl(st, CreateTableIfNotExists(v, "images"), "create_blocks")
      [] pc = "create_blocks" -> Ddl(st, CreateTableIfNotExists(v, "blocks"), "create_index")
      [] pc = "create_index" ->
            IF CreateIndexOk(v)
            THEN Ddl(st, CreateIndexIfNotExists(v), "get_version")
            ELSE Raise(st, "no such table: blocks")
      [] pc = "get_version" ->
            LET cv == _get_schema_version(v, c.rowFactory)
            IN  [st EXCEPT !.c.cv = cv, !.c.pc = AfterVersion(cv)]
      [] pc = "m2_rename" ->
            IF RenameOk(v) THEN Ddl(st, RenameBlocks(v), "m2_create")
            ELSE Raise(st, "there is already another table: blocks_old")
      [] pc = "m2_create" ->
            IF CreateOk(v) THEN Ddl(st, CreateBlocks(v, "v2"), "m2_copy")
            ELSE Raise(st, "table blocks already exists")
      [] pc = "m2_copy" ->
            IF CopyOk(v) THEN Dml(st, CopyRows(v), "m2_drop")
            ELSE Raise(st, "IntegrityError")
      [] pc = "m2_drop" ->
            IF DropOk(v) THEN Ddl(st, DropOld(v), "m3_rename")
            ELSE Raise(st, "no such table: blocks_old")
      [] pc = "m3_rename" ->
            IF RenameOk(v) THEN Ddl(st, RenameBlocks(v), "m3_create")
            ELSE Raise(st, "there is already another table: blocks_old")
      [] pc = "m3_create" ->
            IF CreateOk(v) THEN Ddl(st, CreateBlocks(v, "v3"), "m3_copy")
            ELSE Raise(st, "table blocks already exists")
      [] pc = "m3_copy" ->
            IF CopyOk(v) THEN Dml(st, CopyRows(v), "m3_drop")
            ELSE Raise(st, "IntegrityError")
      [] pc = "m3_drop" ->
            IF DropOk(v) THEN Ddl(st, DropOld(v), "m_meta")
            ELSE Raise(st, "no such table: blocks_old")
      [] pc = "m_meta" -> Dml(st, _upsert_meta(v, Str(SCHEMA_VERSION)), "ensured")
      [] pc = "ensured" ->
            [st EXCEPT !.c.ensured = TRUE, !.c.ensView = v,
                       !.c.ensChanged = (st.d # c.pre),
                       !.c.pc = IF c.op = "load" THEN "select" ELSE "begin"]
      [] pc = "select" ->
            IF SelectOk(v)
            THEN LET r == LoadRows(v, OrderByPosition(v.blocks),
                                   [out |-> <<>>, k |-> st.k, err |-> "none"], c.fault)
                 IN  IF r.err # "none"
                     THEN Raise([st EXCEPT !.k = r.k], r.err)
                     ELSE [st EXCEPT !.c.out = r.out, !.k = r.k, !.c.pc = "close",
                                     !.c.docPath = "target", !.c.docDirty = FALSE]
            ELSE Raise(st, "no such column")
      [] pc = "begin" ->
            IF c.inTxn
            THEN Raise(st, "cannot start a transaction within a transaction")
            ELSE [st EXCEPT !.c.inTxn = TRUE, !.c.pc = "delete_blocks"]
      [] pc = "delete_blocks" -> Dml(st, DeleteBlocks(v), "delete_images")
      [] pc = "delete_images" -> Dml(st, DeleteImages(v), "block")
      [] pc = "block" -> SaveBlock(st)
      [] pc = "insert_image_block" ->
            LET row == RowFor(c.doc[c.i], c.position, v.imgSeq)
            IN  IF InsertBlockOk(v, row)
                THEN [Dml(st, InsertBlock(v, row), "block")
                        EXCEPT !.c.i = @ + 1, !.c.position = @ + 1]
                ELSE Raise(st, "IntegrityError")
      [] pc = "upsert_meta" -> Dml(st, _upsert_meta(v, Str(SCHEMA_VERSION)), "commit")
      [] pc = "commit" ->
            [st EXCEPT !.d = IF c.hasLock THEN c.work ELSE @,
                       !.c.work = EmptyDB, !.c.hasLock = FALSE, !.c.inTxn = FALSE,
                       !.c.pc = "flags"]
      [] pc = "flags" ->
            [st EXCEPT !.c.docPath = "target", !.c.docDirty = FALSE, !.c.pc = "close"]
      [] OTHER -> Close(st)

\* One step of a call.  busy: another connection holds the write lock and
\* the busy timeout has run out.  st.n counts the statements still to run
\* before the injected I/O failure (negative: none is injected).
Step(st, busy) ==
    IF st.c.pc \in StmtPcs /\ st.n = 0
    THEN Raise(st, "io error")
    ELSE IF busy /\ NeedsLock(st)
    THEN Raise(st, "database is locked")
    ELSE Exec([st EXCEPT !.n = IF st.c.pc \in StmtPcs /\ @ > 0 THEN @ - 1 ELSE @])

\* a whole call, alone on the store
RECURSIVE Run(_)
Run(st) == IF st.c.pc = "done" THEN st ELSE Run(Step(st, FALSE))


----------------------------------------------------------------------------
(* The stores a run starts from and the documents handed to save_document *)

SampleImages == <<ImageRow(1, "image/png", "d1", "al")>>

RowsLegacy ==
    <<Row(0, "text", "a", 0), Row(1, "image", NULL, 1), Row(2, "three", "b", 0)>>

\* a version 0 table carries no CHECK on type
RowsUnchecked == <<Row(0, "text", "a", 0), Row(1, "note", "n", 0)>>

\* a version 0 store written without foreign key enforcement: its image row
\* names an images row that is not there
RowsUnreferenced == <<Row(0, "text", "a", 0), Row(1, "image", NULL, 2)>>

RowsV3 == RowsLegacy \o <<PyRow(3, "s", "png", "ZDE=", "h1", NULL)>>

Store(ver, shape, rows, images) ==
    [tables |-> {"meta", "images", "blocks"}, idx |-> "blocks", ver |-> ver,
     shape |-> shape, oldShape |-> "none", blocks |-> rows, old |-> <<>>,
     images |-> images, imgSeq |-> Len(images)]

InitStores ==
    {EmptyDB,
     Store(NULL, "v0", RowsLegacy, SampleImages),
     Store("0", "v0", RowsUnchecked, <<>>),
     Store("0", "v0", RowsUnreferenced, SampleImages),
     Store("2", "v2", RowsLegacy, SampleImages),
     Store("3", "v3", <<>>, <<>>),
     Store("3", "v3", RowsV3, SampleImages),
     Store("5", "v3", RowsV3, SampleImages),
     Store("junk", "v3", RowsV3, SampleImages)}

SampleDoc ==
    <<TextBlock("a"),
      ImageBlock("/gone", "al", "d1", "image/png"),
      LatexBlock("x"),
      ThreeBlock("b"),
      ImageBlock("/gone", "", NULL, NULL),
      PythonImageBlock("s", "png", "ZDE=", "h1", NULL, NULL)>>

\* the runs of up to MaxBlocks consecutive blocks of SampleDoc
Docs ==
    {SubSeq(SampleDoc, w[1], w[2]) :
        w \in {x \in (1..Len(SampleDoc)) \X (0..Len(SampleDoc)) :
                  x[2] >= x[1] - 1 /\ x[2] - x[1] + 1 <= MaxBlocks}}

\* -1: no failure is injected
FailPoints == -1..MaxFailAt

NoHist == [ensures |-> 0]

\* what a finished call adds to the history: whether some _ensure_schema
\* has returned on this store (0 or 1)
Record(h, c) ==
    [ensures |-> IF c.ensured THEN 1 ELSE h.ensures]

----------------------------------------------------------------------------
(* document_io: which loader or saver a path is handed to.  A file is its  *)
(* bytes; TEXT_HEADER stands for the header's characters, " " for any      *)
(* whitespace but the line end, "bad" for a byte that is not UTF-8.        *)

Chars == {"#", "v", " ", "\n", "bad"}
Whitespace == {" ", "\n"}

Missing == [kind |-> "missing", bytes |-> <<>>]
Regular(bytes) == [kind |-> "regular", bytes |-> bytes]

\* a store file as sqlite3 writes it: its first page is not UTF-8
SqliteFile == Regular(<<"S", "bad">>)

Files ==
    {Missing} \cup
    {Regular(b) : b \in UNION {[1..n -> Chars] : n \in 0..MaxFileLen}}

Min(a, b) == IF a < b THEN a ELSE b

\* index of the first line end of s, 0 when it has none
RECURSIVE FirstNewline(_, _)
FirstNewline(s, n) ==
    IF n > Len(s) THEN 0
    ELSE IF s[n] = "\n" THEN n
    ELSE FirstNewline(s, n + 1)

\* handle.readline() of a file opened with encoding="utf-8": the decoder
\* takes the bytes a chunk at a time, raises on a chunk that holds a byte
\* that is not UTF-8, and stops at the first chunk that holds a line end
RECURSIVE ReadLine(_, _, _)
ReadLine(bytes, from, decoded) ==
    LET upto == Min(from + ChunkLen - 1, Len(bytes))
        chunk == SubSeq(bytes, from, upto)
        text == decoded \o chunk
        nl == FirstNewline(text, 1)
    IN  IF from > Len(bytes) THEN [err |-> FALSE, line |-> decoded]
        ELSE IF \E n \in 1..Len(chunk) : chunk[n] = "bad"
             THEN [err |-> TRUE, line |-> <<>>]
        ELSE IF nl > 0 THEN [err |-> FALSE, line |-> SubSeq(text, 1, nl)]
        ELSE ReadLine(bytes, upto + 1, text)

\* str.strip()
RECURSIVE Strip(_)
Strip(s) ==
    IF s = <<>> THEN s
    ELSE IF Head(s) \in Whitespace THEN Strip(Tail(s))
    ELSE IF s[Len(s)] \in Whitespace THEN Strip(SubSeq(s, 1, Len(s) - 1))
    ELSE s

\* _is_text_doc with its header check always made
_is_text_doc_sniffing(f, check_header) ==
    IF f.kind # "regular" THEN "False"
    ELSE LET first == ReadLine(f.bytes, 1, <<>>)
         IN  IF first.err THEN "UnicodeDecodeError"
             ELSE IF Strip(first.line) = TEXT_HEADER THEN "True"
             ELSE "False"

\* "True", "False", or the exception that escapes: only OSError is caught
_is_text_doc(f, check_header) ==
    IF ~check_header THEN "True"
    ELSE IF f.kind # "regular" THEN "False"
    ELSE LET first == ReadLine(f.bytes, 1, <<>>)
         IN  IF first.err THEN "UnicodeDecodeError"
             ELSE IF Strip(first.line) = TEXT_HEADER THEN "True"
             ELSE "False"

\* the file persistence_text.save_document leaves: the header is its first line
save_text(f) == Regular(TEXT_HEADER \o <<"\n">>)

NoFile == Missing
NoRoute == [op |-> "none", to |-> "none", before |-> NoFile]

NoMat == [p \in Procs |-> MIdle]


----------------------------------------------------------------------------
(* py_runner: render_python_image.  The subprocess and the filesystem are  *)
(* the environment: env says how the run of the interpreter ends.          *)

Sources == {"b", "pngb"}
PythonPaths == {"", "a", "asvg"}
Formats == {NULL, "svg", "SVG", "gif"}

\* what the interpreter printed, as characters: blank, or a message
Outputs == {<<" ">>, <<" ", "#", "\n">>}

\* how the run ends: the binary cannot be started; it exits non-zero; it
\* exits 0 without the output file; the output file cannot be read; its
\* bytes are not UTF-8; it is read
Ends == {"no_start", "exit_nonzero", "no_output", "unreadable", "undecodable", "ok"}

\* stderr and stdout are looked at only after a non-zero exit
Envs ==
    {[end |-> e, stderr |-> <<>>, stdout |-> <<>>] : e \in Ends \ {"exit_nonzero"}}
        \cup [end : {"exit_nonzero"}, stderr : Outputs, stdout : Outputs]

\* str.lower() of the format names the model uses
Lower(f) == IF f = "SVG" THEN "svg" ELSE f

\* the format taken as given
Uncoerced(render_format) == OrElse(render_format, "png")

\* lines 26-28: the format the call goes on with
Coerced(render_format) ==
    LET f == Lower(OrElse(render_format, "png"))
    IN  IF f \in {"png", "svg"} THEN f ELSE "png"

\* the characters of an output as one string
RECURSIVE Join(_)
Join(chars) == IF chars = <<>> THEN "" ELSE Head(chars) \o Join(Tail(chars))

\* an output taken as it is
TextUnstripped(chars) == Join(chars)

\* line 53: result.stderr.strip(), result.stdout.strip()
TextStripped(chars) == Join(Strip(chars))

\* a digest that takes in the output path, which lies in the ephemeral directory
_hash_render_of_output(source, python_path, render_format) ==
    python_path \o render_format \o source \o "/tmp/gtkv-pyimage-" \o ToString(render.n)

\* sha256 over the three encodings fed in this order, taken as the bytes fed
_hash_render(source, python_path, render_format) ==
    python_path \o render_format \o source

\* a result whose payload is empty where it should be absent
RenderResultEmptyPayload(rendered_data, rendered_hash, error) ==
    [rendered_data |-> OrElse(rendered_data, ""), rendered_hash |-> rendered_hash,
     error |-> error, raised |-> "none"]

RenderResult(rendered_data, rendered_hash, error) ==
    [rendered_data |-> rendered_data, rendered_hash |-> rendered_hash,
     error |-> error, raised |-> "none"]

\* an exception leaves render_python_image
RenderRaised(e) ==
    [rendered_data |-> NULL, rendered_hash |-> NULL, error |-> NULL, raised |-> e]

\* base64.b64encode of the bytes the render wrote
B64Encode(bytes) == IF bytes = "d1" THEN "ZDE=" ELSE "ZDI="

\* what render_python_image returns or raises
RenderOutcome(source, python_path, render_format, env) ==
    IF ~Truthy(python_path)
    THEN RenderResult(NULL, NULL, "Python path not configured")
    ELSE
      LET f == Coerced(render_format)
          render_hash == _hash_render(source, python_path, f)
      IN
      CASE env.end = "no_start" -> RenderRaised("OSError")
        [] env.end = "exit_nonzero" ->
              RenderResult(NULL, render_hash,
                  OrElse(TextStripped(env.stderr),
                         OrElse(TextStripped(env.stdout), "Render failed")))
        [] env.end = "no_output" ->
              RenderResult(NULL, render_hash, "Renderer did not write output")
        [] env.end = "unreadable" ->
              RenderResult(NULL, render_hash, "Failed to read output: OSError")
        [] env.end = "undecodable" /\ f = "svg" -> RenderRaised("UnicodeDecodeError")
        [] OTHER ->
              IF f = "svg"
              THEN RenderResult("<svg/>", render_hash, NULL)
              ELSE RenderResult(B64Encode("d1"), render_hash, NULL)

NoArgs == [source |-> NULL, python_path |-> NULL, render_format |-> NULL]

\* no interpreter was run
NoEnv == [end |-> "none", stderr |-> <<>>, stdout |-> <<>>]

\* line 34: the file the interpreter is to write
OutputName(render_format) == "render." \o Coerced(render_format)

\* the files of the ephemeral directory when the call leaves it: the source,
\* the runner script, and the output if the interpreter ran and wrote it
FilesWritten(render_format, env) ==
    {"source.py", "runner.py"}
        \cup (IF env.end \in {"unreadable", "undecodable", "ok"}
              THEN {OutputName(render_format)} ELSE {})

\* line 32, entering the with block: tempfile.TemporaryDirectory makes dir
TemporaryDirectory(tmp, dir, files) == tmp \cup {[name |-> dir, files |-> files]}

\* an ephemeral directory that is left behind
TemporaryDirectoryKept(tmp, dir) == tmp

\* line 32, leaving the with block by return or by exception: the
\* directory and all that is in it are removed
TemporaryDirectoryExit(tmp, dir) == {d \in tmp : d.name # dir}

\* first: the arguments of the first call that returned, its digest and
\* whether it returned a payload; last: the latest call, its ephemeral
\* directory and output file if it had them; n: the name the next
\* ephemeral directory gets; tmp: the ephemeral directories that exist
NoRender ==
    [first |-> [args |-> NoArgs, rendered_hash |-> NULL, ok |-> FALSE],
     last |-> [args |-> NoArgs, env |-> NoEnv, dir |-> NULL, output |-> NULL,
               result |-> RenderRaised("none")],
     n |-> 0, tmp |-> {}]

----------------------------------------------------------------------------
(* Spec: calls run one at a time on connection 1, each to its end; between *)
(* calls the editor changes the in-memory document                         *)

NewDocument == [blocks |-> <<>>, path |-> "unset", dirty |-> FALSE]

Init ==
    /\ disk \in InitStores
    /\ disk0 = disk
    /\ lock = 0
    /\ calls = [p \in Procs |-> IdleCall]
    /\ hist = NoHist
    /\ cache = EmptyCache
    /\ document = NewDocument
    /\ file = NoFile
    /\ route = NoRoute
    /\ mat = NoMat
    /\ render = NoRender

\* the document the caller holds once the call has ended: load_document
\* returns a new one, save_document updates the one it was given
DocumentAfter(c) ==
    IF c.op = "load"
    THEN IF c.err = "none"
         THEN [blocks |-> c.out, path |-> c.docPath, dirty |-> c.docDirty]
         ELSE document
    ELSE [document EXCEPT !.path = c.docPath, !.dirty = c.docDirty]

\* one whole call on connection 1, from connect to close
CallOn(op, failAt) ==
    LET st == Run([c |-> NewCall(op, document, disk, hist.ensures),
                   d |-> disk, k |-> cache, n |-> failAt])
    IN  /\ disk' = st.d
        /\ cache' = st.k
        /\ calls' = [calls EXCEPT ![1] = st.c]
        /\ hist' = Record(hist, st.c)
        /\ document' = DocumentAfter(st.c)

Call(op, failAt) ==
    /\ CallOn(op, failAt)
    /\ UNCHANGED <<disk0, lock, file, route, mat, render>>

load_document(failAt) == Call("load", failAt)

save_document(failAt) ==
    /\ disk.imgSeq <= MaxImgSeq
    /\ Call("save", failAt)

\* the editor replaces the blocks of the document
Edit(blocks) ==
    /\ blocks # document.blocks
    /\ document' = [document EXCEPT !.blocks = blocks, !.dirty = TRUE]
    /\ calls' = [calls EXCEPT ![1] = IdleCall]
    /\ UNCHANGED <<disk, disk0, lock, hist, cache, file, route, mat, render>>

Next ==
    \/ \E failAt \in FailPoints : load_document(failAt)
    \/ \E failAt \in FailPoints : save_document(failAt)
    \/ \E blocks \in Docs : Edit(blocks)

Spec == Init /\ [][Next]_vars


----------------------------------------------------------------------------
(* SpecDispatch: document_io.load and document_io.save on one path *)

InitDispatch ==
    /\ disk = EmptyDB
    /\ disk0 = disk
    /\ lock = 0
    /\ calls = [p \in Procs |-> IdleCall]
    /\ hist = NoHist
    /\ cache = EmptyCache
    /\ document = NewDocument
    /\ file \in Files
    /\ route = NoRoute
    /\ mat = NoMat
    /\ render = NoRender

\* sqlite3.connect creates a missing file and takes an empty one for a new
\* store; any other file that reaches it is not a database
load_sqlite ==
    IF file.kind = "missing" \/ file.bytes = <<>>
    THEN /\ CallOn("load", -1)
         /\ file' = SqliteFile
    ELSE UNCHANGED <<disk, cache, calls, hist, document, file>>

load ==
    LET t == _is_text_doc(file, TRUE)
    IN  /\ route' = [op |-> "load", before |-> file,
                     to |-> CASE t = "True" -> "text"
                              [] t = "False" -> "sqlite"
                              [] OTHER -> "raise"]
        /\ IF t = "False"
           THEN load_sqlite
           ELSE UNCHANGED <<disk, cache, calls, hist, document, file>>
        /\ UNCHANGED <<disk0, lock, mat, render>>

save ==
    LET t == _is_text_doc(file, FALSE)
    IN  /\ route' = [op |-> "save", before |-> file,
                     to |-> CASE t = "True" -> "text"
                              [] t = "False" -> "sqlite"
                              [] OTHER -> "raise"]
        /\ IF t = "True"
           THEN /\ file' = save_text(file)
                /\ UNCHANGED <<disk, cache, calls, hist, document>>
           ELSE IF t = "False"
           THEN /\ CallOn("save", -1)
                /\ UNCHANGED file
           ELSE UNCHANGED <<disk, cache, calls, hist, document, file>>
        /\ UNCHANGED <<disk0, lock, mat, render>>

NextDispatch == load \/ save

SpecDispatch == InitDispatch /\ [][NextDispatch]_vars

----------------------------------------------------------------------------
(* SpecConc: two connections to one store file, interleaved statement by   *)
(* statement.  The write lock is held from the statement that takes it to  *)
(* the commit, rollback or close that ends the transaction.                *)

ConcStores ==
    {EmptyDB, Store("3", "v3", <<Row(0, "text", "a", 0)>>, <<>>)}

ConcDocs ==
    {<<TextBlock("b")>>, <<TextBlock("c"), ThreeBlock("d")>>}

InitConc ==
    /\ disk \in ConcStores
    /\ disk0 = disk
    /\ lock = 0
    /\ calls = [p \in Procs |-> IdleCall]
    /\ hist = NoHist
    /\ cache = EmptyCache
    /\ document = NewDocument
    /\ file = NoFile
    /\ route = NoRoute
    /\ mat = NoMat
    /\ render = NoRender

StartLoad(p) ==
    /\ calls[p].pc = "done"
    /\ calls' = [calls EXCEPT ![p] = NewCall("load", NewDocument, disk, hist.ensures)]
    /\ UNCHANGED <<disk, disk0, lock, hist, cache, document, file, route, mat, render>>

StartSave(p, blocks) ==
    /\ calls[p].pc = "done"
    /\ calls' = [calls EXCEPT ![p] =
            NewCall("save", [NewDocument EXCEPT !.blocks = blocks], disk, hist.ensures)]
    /\ UNCHANGED <<disk, disk0, lock, hist, cache, document, file, route, mat, render>>

\* another connection holds the write lock
Busy(p) == lock \notin {0, p}

Held(p, c) == IF c.hasLock THEN p ELSE IF lock = p THEN 0 ELSE lock

\* the next statement of the call on connection p
StepProc(p) ==
    LET st == [c |-> calls[p], d |-> disk, k |-> cache, n |-> -1]
        nx == Step(st, FALSE)
    IN  /\ calls[p].pc # "done"
        /\ ~(Busy(p) /\ NeedsLock(st))
        /\ disk' = nx.d
        /\ cache' = nx.k
        /\ calls' = [calls EXCEPT ![p] = nx.c]
        /\ lock' = Held(p, nx.c)
        /\ hist' = IF nx.c.pc = "done" THEN Record(hist, nx.c) ELSE hist
        /\ UNCHANGED <<disk0, document, file, route, mat, render>>

\* the statement waited for the lock until the busy timeout ran out
BusyTimeout(p) ==
    LET st == [c |-> calls[p], d |-> disk, k |-> cache, n |-> -1]
        nx == Step(st, TRUE)
    IN  /\ calls[p].pc # "done"
        /\ Busy(p) /\ NeedsLock(st)
        /\ calls' = [calls EXCEPT ![p] = nx.c]
        /\ hist' = Record(hist, nx.c)
        /\ UNCHANGED <<disk, disk0, lock, cache, document, file, route, mat, render>>

NextConc ==
    \/ \E p \in Procs : StartLoad(p)
    \/ \E p \in Procs, blocks \in ConcDocs : StartSave(p, blocks)
    \/ \E p \in Procs : StepProc(p)
    \/ \E p \in Procs : BusyTimeout(p)

SpecConc == InitConc /\ [][NextConc]_vars

----------------------------------------------------------------------------
(* SpecLoad: load_document on a store at the current version, whatever its *)
(* rows and whatever the filesystem does to the cache                      *)

\* the rows load_document tells apart, before their positions are set: text,
\* image with its images row, image without image_id, image whose images row
\* is gone, three, and renders with a good, an undecodable, an svg and no
\* payload
LoadSampleRows ==
    {Row(0, "text", "a", 0),
     Row(0, "image", NULL, 1),
     Row(0, "image", NULL, 0),
     Row(0, "image", NULL, 2),
     Row(0, "three", "b", 0),
     PyRow(0, "s", "png", "ZDE=", "h1", NULL),
     PyRow(0, "s", "png", "abc", "h2", NULL),
     PyRow(0, "s", "svg", "<svg/>", NULL, NULL),
     PyRow(0, "s", NULL, NULL, NULL, "boom")}

\* the rows in table order, at positions that ascend or descend
Positioned(rows, descending) ==
    [n \in 1..Len(rows) |->
        [rows[n] EXCEPT !.position = IF descending THEN Len(rows) - n ELSE n - 1]]

LoadStores ==
    {Store("3", "v3", Positioned(rows, descending), SampleImages) :
        rows \in UNION {[1..n -> LoadSampleRows] : n \in 0..MaxRows},
        descending \in BOOLEAN}

InitLoad ==
    /\ disk \in LoadStores
    /\ disk0 = disk
    /\ lock = 0
    /\ calls = [p \in Procs |-> IdleCall]
    /\ hist = NoHist
    /\ cache = EmptyCache
    /\ document = NewDocument
    /\ file = NoFile
    /\ route = NoRoute
    /\ mat = NoMat
    /\ render = NoRender

\* load_document while the filesystem treats the cache as fault says
LoadWithFault(fault) ==
    LET st == Run([c |-> [NewCall("load", document, disk, hist.ensures)
                             EXCEPT !.fault = fault],
                   d |-> disk, k |-> cache, n |-> -1])
    IN  /\ disk' = st.d
        /\ cache' = st.k
        /\ calls' = [calls EXCEPT ![1] = st.c]
        /\ hist' = Record(hist, st.c)
        /\ document' = DocumentAfter(st.c)
        /\ UNCHANGED <<disk0, lock, file, route, mat, render>>

NextLoad == \E fault \in Faults : LoadWithFault(fault)

SpecLoad == InitLoad /\ [][NextLoad]_vars

----------------------------------------------------------------------------
(* SpecCache: materialize calls on one cache directory, one at a time *)

\* arguments of _materialize_image: image_id, mime, data
ImageCalls == {<<1, "image/png", "d1">>, <<1, "image/png", "d2">>, <<1, NULL, "d1">>}

\* arguments of _materialize_pyimage: rendered_data, render_format,
\* rendered_hash
PyCalls == {<<NULL, "png", "h1">>, <<"ZDE=", NULL, "h1">>, <<"ZDI=", "png", "h1">>,
            <<"abc", "png", "h1">>, <<"abc", "svg", "h1">>, <<"ZDE=", "png", NULL>>}

InitCache ==
    /\ disk = EmptyDB
    /\ disk0 = disk
    /\ lock = 0
    /\ calls = [p \in Procs |-> IdleCall]
    /\ hist = NoHist
    /\ cache = EmptyCache
    /\ document = NewDocument
    /\ file = NoFile
    /\ route = NoRoute
    /\ mat = NoMat
    /\ render = NoRender

Materialized(r) ==
    /\ cache' = r.k
    /\ mat' = [mat EXCEPT ![1] = r.m]
    /\ UNCHANGED <<disk, disk0, lock, calls, hist, document, file, route, render>>

MaterializeImage(a, fault) ==
    Materialized(_materialize_image(cache, a[1], a[2], a[3], fault))

MaterializePyimage(a, fault) ==
    Materialized(_materialize_pyimage(cache, a[1], a[2], a[3], fault))

NextCache ==
    \/ \E a \in ImageCalls, fault \in Faults : MaterializeImage(a, fault)
    \/ \E a \in PyCalls, fault \in Faults : MaterializePyimage(a, fault)

SpecCache == InitCache /\ [][NextCache]_vars

----------------------------------------------------------------------------
(* SpecCacheConc: two callers materialize into one cache directory, their *)
(* filesystem calls interleaved                                           *)

\* the calls that meet on one key: two payloads for one image id, two for
\* one render digest
SameKeyImageCalls == {a \in ImageCalls : a[2] = "image/png"}

SameKeyPyCalls == {a \in PyCalls : a[3] = "h1" /\ a[2] # "svg"}

StartImage(p, a) ==
    /\ mat[p].pc = "done"
    /\ mat' = [mat EXCEPT ![p] = MCallImage(a[1], a[2], a[3], "none")]
    /\ UNCHANGED <<disk, disk0, lock, calls, hist, cache, document, file, route, render>>

StartPyimage(p, a) ==
    /\ mat[p].pc = "done"
    /\ mat' = [mat EXCEPT ![p] = MCallPyimage(a[1], a[2], a[3], "none")]
    /\ UNCHANGED <<disk, disk0, lock, calls, hist, cache, document, file, route, render>>

\* the next filesystem call of p's materialize
MStepProc(p) ==
    /\ mat[p].pc # "done"
    /\ LET r == MStep([m |-> mat[p], k |-> cache])
       IN  /\ cache' = r.k
           /\ mat' = [mat EXCEPT ![p] = r.m]
    /\ UNCHANGED <<disk, disk0, lock, calls, hist, document, file, route, render>>

NextCacheConc ==
    \E p \in Procs :
        \/ \E a \in SameKeyImageCalls : StartImage(p, a)
        \/ \E a \in SameKeyPyCalls : StartPyimage(p, a)
        \/ MStepProc(p)

SpecCacheConc == InitCache /\ [][NextCacheConc]_vars

----------------------------------------------------------------------------
(* SpecRender: render_python_image called again and again, each call with *)
(* its arguments and with what the interpreter and the filesystem do      *)

InitRender == InitCache

render_python_image(source, python_path, render_format, env) ==
    LET result == RenderOutcome(source, python_path, render_format, env)
        args == [source |-> source, python_path |-> python_path,
                 render_format |-> render_format]
    IN  /\ render' =
              [first |-> IF render.first.args = NoArgs /\ result.raised = "none"
                         THEN [args |-> args, rendered_hash |-> result.rendered_hash,
                               ok |-> result.rendered_data # NULL]
                         ELSE render.first,
               last |-> [args |-> args, env |-> env,
                         dir |-> IF Truthy(python_path) THEN Str(render.n) ELSE NULL,
                         output |-> IF Truthy(python_path)
                                    THEN OutputName(render_format) ELSE NULL,
                         result |-> result],
               n |-> IF Truthy(python_path) THEN (render.n + 1) % MaxTmp ELSE render.n,
               tmp |-> IF Truthy(python_path)
                       THEN TemporaryDirectoryExit(
                                TemporaryDirectory(render.tmp, Str(render.n),
                                    FilesWritten(render_format, env)),
                                Str(render.n))
                       ELSE render.tmp]
        /\ UNCHANGED <<disk, disk0, lock, calls, hist, cache, document, file, route, mat>>

NextRender ==
    \E source \in Sources, python_path \in PythonPaths, render_format \in Formats :
        \E env \in (IF Truthy(python_path) THEN Envs ELSE {NoEnv}) :
            render_python_image(source, python_path, render_format, env)

SpecRender == InitRender /\ [][NextRender]_vars

----------------------------------------------------------------------------
(* Claims about the store, checked under Spec *)

\* what load_document returns when run, with no failure injected, on store d
LoadOf(d, k) ==
    Run([c |-> NewCall("load", NewDocument, d, 0), d |-> d, k |-> k, n |-> -1]).c

\* a block without its derived, materialized path
Content(b) == [b EXCEPT !.path = NULL]

SameContent(a, b) ==
    /\ Len(a) = Len(b)
    /\ \A n \in 1..Len(a) : Content(a[n]) = Content(b[n])

\* the call on connection 1 has ended and no I/O failure was injected into it
Ended(op) ==
    /\ calls[1].op = op
    /\ calls[1].pc = "done"
    /\ calls[1].err # "io error"

\* C1: round trip.  Once save_document(path, doc) has been called on a
\* store, with no I/O failure, it has returned normally and load_document on
\* the same path returns a block sequence of the same length and order, each
\* block of the same variant and content, materialized paths aside.
C1_RoundTrip ==
    Ended("save") =>
        LET l == LoadOf(disk, cache)
        IN  /\ calls[1].err = "none"
            /\ l.err = "none"
            /\ SameContent(l.out, calls[1].doc)

\* C2: save is all-or-nothing.  A save_document call that ends by raising,
\* whatever the statement that failed, leaves the committed store (tables,
\* blocks rows, images rows, meta.schema_version) as it was before the call.
C2_SaveAllOrNothing ==
    [][(calls'[1].op = "save" /\ calls'[1].err # "none") => disk' = disk]_vars

\* C4: ensure brings a store up to the current version.  From a virgin
\* store and from a store recorded at version 0, 2 or 3, every call in which
\* no I/O failure occurs gets through _ensure_schema and then sees
\* meta.schema_version at the current version and the blocks table in the
\* current shape, with no blocks_old left.  (The claim names 4 as the
\* current version; the source's SCHEMA_VERSION is used, so that the number
\* alone does not decide the check.)
C4_EnsureReachesCurrent ==
    (calls[1].op # "none" /\ calls[1].err # "io error"
        /\ disk0.ver \in {NULL, "0", "2", "3"}) =>
        /\ calls[1].ensured
        /\ calls[1].ensView.ver = Str(SCHEMA_VERSION)
        /\ calls[1].ensView.shape = "v3"
        /\ "blocks_old" \notin calls[1].ensView.tables

\* position, type and text of the rows of a table
Proj(rows) ==
    [n \in 1..Len(rows) |->
        [position |-> rows[n].position, type |-> rows[n].type, text |-> rows[n].text]]

RECURSIVE ValidRows(_)
ValidRows(rows) ==
    IF rows = <<>> THEN <<>>
    ELSE IF Head(rows).type \in {"text", "image", "three", "pyimage"}
         THEN <<Head(rows)>> \o ValidRows(Tail(rows))
         ELSE ValidRows(Tail(rows))

\* C5: migration completeness.  When load_document runs, with no I/O
\* failure, on a store frozen at version 0, the blocks table of the store
\* afterwards holds exactly the rows whose type is valid in the current
\* schema, each with its position and text.
C5_MigrationComplete ==
    [][(disk = disk0 /\ disk0.shape = "v0" /\ calls[1].op = "none"
          /\ calls'[1].op = "load" /\ calls'[1].err # "io error")
        => Proj(disk'.blocks) = Proj(ValidRows(disk0.blocks))]_vars

\* C6: migration idempotence.  Once an _ensure_schema call has returned on a
\* store, the _ensure_schema of any later call, run without I/O failure,
\* changes nothing in the committed store: version, tables, rows.
C6_SecondEnsureNoOp ==
    (calls[1].op # "none" /\ calls[1].err # "io error" /\ calls[1].ensBefore = 1)
        => ~calls[1].ensChanged

\* C7: a failed migration is recoverable.  A load_document call that ends
\* by raising, at whatever statement, leaves the committed store at the
\* version, tables and rows it had before the call, with no blocks_old.
C7_MigrationRecoverable ==
    [][(calls'[1].op = "load" /\ calls'[1].err # "none")
        => /\ disk'.ver = disk.ver
           /\ disk'.tables = disk.tables
           /\ disk'.blocks = disk.blocks
           /\ "blocks_old" \notin disk'.tables]_vars

RowTypes(db) == {db.blocks[n].type : n \in 1..Len(db.blocks)}

----------------------------------------------------------------------------
(* Claims about document_io, checked under SpecDispatch *)

\* what load's detection makes of the file as it is
Detected(f) == _is_text_doc(f, TRUE)

FirstLineIsHeader(f) ==
    /\ f.kind = "regular"
    /\ LET nl == FirstNewline(f.bytes, 1)
       IN  TEXT_HEADER = IF nl = 0 THEN f.bytes ELSE SubSeq(f.bytes, 1, nl - 1)

\* C10: load(path) hands the path to the text loader if and only if the
\* first line of the file is exactly the header, whatever bytes follow it,
\* and to the relational loader otherwise, also when the file cannot be
\* opened; detection never raises.
C10_LoadDetection ==
    route.op = "load" =>
        /\ route.to # "raise"
        /\ route.to = "text" <=> FirstLineIsHeader(route.before)
        /\ route.to = "sqlite" <=> ~FirstLineIsHeader(route.before)

----------------------------------------------------------------------------
(* Claims about concurrent calls, checked under SpecConc *)

\* the blocks rows save_document inserts for a document of text and three blocks
RowsOfDoc(blocks) ==
    [n \in 1..Len(blocks) |->
        [position |-> n - 1,
         type |-> blocks[n].kind,
         text |-> blocks[n].text]]

\* C3: atomic visibility.  Under every interleaving of save and load calls
\* of two connections, the committed store, which is what a reader sees, holds
\* in its blocks table either the complete rows from before the calls or the
\* complete rows of one saved document: never the emptied table, never a
\* mixture.
C3_AtomicVisibility ==
    \/ Proj(disk.blocks) = Proj(disk0.blocks)
    \/ \E blocks \in ConcDocs : Proj(disk.blocks) = RowsOfDoc(blocks)

----------------------------------------------------------------------------
(* Claims about image references, checked under Spec *)

\* the rows of blocks whose image_id names no images row
Dangling(db) ==
    {n \in 1..Len(db.blocks) :
        /\ db.blocks[n].image_id # 0
        /\ \A m \in 1..Len(db.images) : db.images[m].id # db.blocks[n].image_id}

----------------------------------------------------------------------------
(* Claims about the rows a save stores, checked under Spec *)

\* an Image block with no inline bytes whose path is missing or unreadable
NoBytesNoFile(b) ==
    /\ b.kind = "image"
    /\ ~(Truthy(b.data) /\ Truthy(b.mime))
    /\ ~(Truthy(b.path) /\ FsExists(b.path) /\ FsReadable(b.path))

Positions(rows) == {rows[n].position : n \in 1..Len(rows)}

\* C11: save soft-drop.  A save_document call, with no I/O failure, of a
\* document holding an Image block without bytes and without a readable file
\* returns normally; the store then holds no blocks row and no images row for
\* that block, and a row at position i - 1 for every other block i.
C11_SoftDrop ==
    (Ended("save") /\ \E n \in 1..Len(calls[1].doc) : NoBytesNoFile(calls[1].doc[n])) =>
        LET doc == calls[1].doc
            kept == {n \in 1..Len(doc) : ~NoBytesNoFile(doc[n]) /\ doc[n].kind # "latex"}
        IN  /\ calls[1].err = "none"
            /\ Positions(disk.blocks) = {n - 1 : n \in kept}
            /\ Len(disk.blocks) = Cardinality(kept)
            /\ Len(disk.images) = Cardinality({n \in kept : doc[n].kind = "image"})

----------------------------------------------------------------------------
(* Claims about load_document and bad rows, checked under SpecLoad *)

\* an image row that load_document is to skip: no image_id, or no images row
BadImageRow(db, row) ==
    /\ row.type = "image"
    /\ \A m \in 1..Len(db.images) : db.images[m].id # row.image_id

RECURSIVE GoodRows(_, _)
GoodRows(db, rows) ==
    IF rows = <<>> THEN <<>>
    ELSE IF BadImageRow(db, Head(rows)) THEN GoodRows(db, Tail(rows))
    ELSE <<Head(rows)>> \o GoodRows(db, Tail(rows))

\* C14: load recovers locally from bad rows.  load_document on a store at
\* the current version, whatever the filesystem does to the cache, returns;
\* it returns one block for every row but the image rows without an images
\* row, in position order, each of the row's type, and a render row whose
\* payload is absent or cannot be decoded comes back without a path.
C14_LoadSkipsBadRows ==
    Ended("load") =>
        LET rows == GoodRows(disk, OrderByPosition(disk.blocks))
            out == calls[1].out
        IN  /\ calls[1].err = "none"
            /\ Len(out) = Len(rows)
            /\ \A n \in 1..Len(rows) :
                  /\ out[n].kind = rows[n].type
                  /\ (rows[n].type = "pyimage" /\ rows[n].rendered_data \in {NULL, "abc"})
                        => out[n].path = NULL

----------------------------------------------------------------------------
(* Claims about the cache, checked under SpecCache and SpecCacheConc *)

\* the file a materialize call is about, if the cache holds it
Target(k, m) ==
    IF m.fn = "image" THEN ImageFile(k, m.id, m.ext) ELSE PyFile(k, m.digest, m.ext)

\* C15: cache write-once.  A materialize call, of an image or of a render,
\* leaves every file the cache held before it with the bytes it had, and a
\* call that brings payload bytes for a key whose file the cache already
\* held returns the path of that file, whatever the bytes it brought.
C15_WriteOnce ==
    [][LET m == mat'[1]
       IN  /\ cache.images \subseteq cache'.images
           /\ cache.py \subseteq cache'.py
           /\ (Target(cache, m) # {} /\ (m.fn = "pyimage" => Truthy(m.raw)))
                 => (m.ret = m.name /\ m.err = "none")]_vars

\* a render call with one payload was handed the path of a file that holds
\* another payload, written by an earlier call under the same key
C15_Witness ==
    LET m == mat[1]
    IN  /\ m.fn = "pyimage"
        /\ m.ext = ".png"
        /\ m.ret = m.name
        /\ B64Ok(m.raw)
        /\ \E f \in Target(cache, m) : f.bytes \notin {"", B64Decode(m.raw)}

\* C17: materialization failures are non-fatal.  No materialize call, of
\* an image or of a render, raises, whatever filesystem call fails in it;
\* a call in which one failed returns no path.
C17_MaterializeNeverRaises ==
    LET m == mat[1]
    IN  /\ m.err = "none"
        /\ (m.fault # "none" /\ Target(cache, m) = {}) => m.ret = NULL

\* C16: concurrent materialization is safe.  Once a caller has been
\* handed the path of a file, the file keeps its bytes, whatever other
\* materialize calls for the same key do next.
C16_HandedFileStable ==
    [][\A p \in Procs :
          (mat[p].pc = "done" /\ mat[p].ret # NULL)
              => Target(cache', mat[p]) = Target(cache, mat[p])]_vars

----------------------------------------------------------------------------
(* Claims about render_python_image, checked under SpecRender *)

\* render_python_image has been called
Rendered == render.last.args # NoArgs

\* the latest call returned a RenderResult
Returned == Rendered /\ render.last.result.raised = "none"

\* C18: digest determinism.  A call that returns, whatever its outcome,
\* returns the digest that the first call returned if its source,
\* interpreter and format are those of the first call.
C18_DigestDeterministic ==
    (Returned /\ render.last.args = render.first.args)
        => render.last.result.rendered_hash = render.first.rendered_hash

\* a call that failed after a call with the same arguments, an interpreter
\* among them, had returned a payload
C18_Witness ==
    /\ Returned
    /\ render.last.args = render.first.args
    /\ render.first.ok
    /\ render.last.result.rendered_data = NULL
    /\ render.last.result.rendered_hash # NULL

\* C19: the digest is unconditional.  Every RenderResult returned carries
\* a digest, the one of interpreter, coerced format and source in that
\* order, the result returned when no interpreter is configured included.
C19_DigestAlwaysPresent ==
    Returned =>
        LET a == render.last.args
        IN  render.last.result.rendered_hash
                = a.python_path \o Coerced(a.render_format) \o a.source

\* C20: render never raises.  Every call returns a RenderResult, and one
\* without a payload carries an error message.
C20_RenderNeverRaises ==
    Rendered =>
        /\ render.last.result.raised = "none"
        /\ render.last.result.rendered_data = NULL => render.last.result.error # NULL


\* the interpreter exited with code 0 and the output file was there and
\* was read
RanAndRead ==
    /\ Truthy(render.last.args.python_path)
    /\ render.last.env.end \notin {"no_start", "exit_nonzero", "no_output", "unreadable"}

\* C21: render outcome classification.  A RenderResult has a payload and
\* no error if and only if the interpreter exited with code 0 and the
\* output file was there and was read; every other result has no payload
\* and an error.
C21_OutcomeClassification ==
    Returned =>
        LET r == render.last.result
        IN  IF RanAndRead
            THEN r.rendered_data # NULL /\ r.error = NULL
            ELSE r.rendered_data = NULL /\ r.error # NULL

\* the interpreter exited with code 0 without the output file, and the
\* result is a failure
C21_Witness ==
    /\ Returned
    /\ render.last.env.end = "no_output"
    /\ render.last.result.rendered_data = NULL
    /\ render.last.result.error = "Renderer did not write output"


\* the characters of an output from its first to its last that is not
\* whitespace, as one string
Trimmed(chars) ==
    LET inked == {n \in 1..Len(chars) : chars[n] \notin Whitespace}
    IN  IF inked = {} THEN ""
        ELSE Join(SubSeq(chars,
                         CHOOSE n \in inked : \A m \in inked : n <= m,
                         CHOOSE n \in inked : \A m \in inked : m <= n))

\* C22: render failure path.  When the interpreter exits non-zero the
\* result has no payload, the digest of the call's arguments, and as its
\* error the first that is not empty of: stderr trimmed, stdout trimmed,
\* "Render failed".
C22_FailurePath ==
    (Returned /\ render.last.env.end = "exit_nonzero") =>
        LET r == render.last.result
            a == render.last.args
            env == render.last.env
        IN  /\ r.rendered_data = NULL
            /\ r.rendered_hash = a.python_path \o Coerced(a.render_format) \o a.source
            /\ r.error = IF Trimmed(env.stderr) # "" THEN Trimmed(env.stderr)
                         ELSE IF Trimmed(env.stdout) # "" THEN Trimmed(env.stdout)
                         ELSE "Render failed"

\* a non-zero exit with a blank stderr and a message wrapped in whitespace
\* on stdout: the error is the message
C22_Witness ==
    /\ Returned
    /\ render.last.env = [end |-> "exit_nonzero", stderr |-> <<" ">>,
                          stdout |-> <<" ", "#", "\n">>]
    /\ render.last.result.error = "#"


\* the latest call did what the same call with format png does: the same
\* result, digest included, from the output file render.png
AsPng ==
    LET a == render.last.args
    IN  /\ render.last.result
              = RenderOutcome(a.source, a.python_path, "png", render.last.env)
        /\ Truthy(a.python_path) => render.last.output = "render.png"

\* C23 as stated: a call whose format is any value other than png and svg
\* does what the same call with format png does.
C23_OutsideSetIsPng ==
    (Rendered /\ render.last.args.render_format \notin {"png", "svg"}) => AsPng

\* C23: format coercion.  A call whose format, put in lower case, is
\* neither png nor svg (an absent format among them) does what the same
\* call with format png does: it reads render.png, returns its bytes in
\* base64 and the digest of the call with png.
C23_FormatCoercion ==
    (Rendered /\ Lower(OrElse(render.last.args.render_format, "png")) \notin {"png", "svg"})
        => AsPng

\* a call with format gif returned the base64 text of render.png
C23_Witness ==
    /\ Returned
    /\ render.last.args.render_format = "gif"
    /\ render.last.output = "render.png"
    /\ render.last.result.rendered_data = "ZDE="
    /\ AsPng


\* C24: ephemeral directory cleanup.  Once a call that made a working
\* directory has returned or raised, that directory, with its source, its
\* runner script and its output, is no longer there.
C24_EphemeralDirRemoved ==
    (Rendered /\ render.last.dir # NULL)
        => \A d \in render.tmp : d.name # render.last.dir

\* a call made its working directory and raised while starting the
\* interpreter; the directory is gone
C24_Witness ==
    /\ Rendered
    /\ render.last.dir # NULL
    /\ render.last.result.raised = "OSError"
    /\ render.tmp = {}


\* interpreter, format as the call goes on with it, and source of a call
Triple(args) ==
    <<args.python_path, Coerced(args.render_format), args.source>>

\* C26: the digest key is injective on its inputs.  Two calls with an
\* interpreter whose triples of interpreter, format and source differ in
\* some component return different digests.
C26_DigestInjective ==
    (/\ Returned
     /\ Truthy(render.last.args.python_path)
     /\ Truthy(render.first.args.python_path)
     /\ Triple(render.last.args) # Triple(render.first.args))
        => render.last.result.rendered_hash # render.first.rendered_hash

\* the files of the cache that a returned path names
FileAt(k, path) ==
    {f \in k.images : "image-" \o ToString(f.id) \o f.ext = path}
        \cup {f \in k.py : "pyimage-" \o f.digest \o f.ext = path}

\* the bytes the file of a loaded block is to hold: the images row's data,
\* the text of an svg render, the decoded payload of a png render
StoredPayload(block) ==
    IF block.kind = "image" THEN block.data
    ELSE IF block.format = "svg" THEN block.rendered_data
    ELSE B64Decode(block.rendered_data)

\* C27: materialized files match stored payloads.  Every block that
\* load_document returns with a path names a file of the cache that holds
\* the block's stored payload, whatever calls were made on the path before.
C27_FilesMatchPayloads ==
    (Ended("load") /\ calls[1].err = "none") =>
        \A n \in 1..Len(calls[1].out) :
            LET block == calls[1].out[n]
            IN  (block.kind \in {"image", "pyimage"} /\ block.path # NULL)
                    => /\ FileAt(cache, block.path) # {}
                       /\ \A f \in FileAt(cache, block.path) :
                             f.bytes = StoredPayload(block)

----------------------------------------------------------------------------
(* Claims about the recorded version and the document flags, checked under *)
(* Spec                                                                    *)

\* the number meta.schema_version records in a store; 0 when there is no
\* such row or its value is not a number
RecordedVersion(db) ==
    IF db.ver # NULL /\ IsIntString(db.ver) THEN ParseInt(db.ver) ELSE 0

\* C25: the schema version is monotonic.  No load_document or
\* save_document call, _ensure_schema included, failed or not, leaves the
\* store with a lower meta.schema_version than it found, a store recorded
\* at a version above SCHEMA_VERSION included.
C25_VersionMonotonic ==
    [][RecordedVersion(disk') >= RecordedVersion(disk)]_vars

\* save_document has run on a store recorded at version 5, and the store
\* is still recorded at version 5
C25_Witness ==
    /\ Ended("save")
    /\ RecordedVersion(disk0) > SCHEMA_VERSION
    /\ RecordedVersion(disk) = RecordedVersion(disk0)


\* C28: document flags follow the commit.  A save_document call that
\* raises, at whatever step, leaves the document's path and dirty flag as
\* they were; one that returns has committed, and the document has the
\* target as its path and is not dirty; a load_document call that returns
\* gives a document with the loaded path that is not dirty.
C28_FlagsFollowCommit ==
    [][LET c == calls'[1]
       IN  /\ (c.op = "save" /\ c.err # "none")
                 => (document'.path = document.path /\ document'.dirty = document.dirty)
           /\ (c.op = "save" /\ c.err = "none")
                 => /\ document'.path = "target" /\ ~document'.dirty
                    /\ RecordedVersion(disk') = SCHEMA_VERSION
           /\ (c.op = "load" /\ c.err = "none")
                 => /\ document'.path = "target" /\ ~document'.dirty
                    /\ document'.blocks = c.out]_vars

\* a document that was loaded and then edited went through a save_document
\* that raised: it still has its path and is still dirty
C28_Witness ==
    /\ calls[1].op = "save"
    /\ calls[1].pc = "done"
    /\ calls[1].err # "none"
    /\ document.path = "target"
    /\ document.dirty

=============================================================================
